---- MODULE Spec2Model ----
(***************************************************************************)
(* Model of the pager engine of claude-pager (src/bin/pager.c): the        *)
(* run_pager loop with its signal flags, terminal mode, transcript reload, *)
(* keyboard input and draw decision, together with the environment it      *)
(* polls (watched process, transcript file, terminal size, tty input).     *)
(***************************************************************************)
EXTENDS Integers, Sequences, FiniteSets, TLC

(* ---------------------------------------------------------------------- *)
(* Bounds of the model                                                     *)
(* ---------------------------------------------------------------------- *)
MaxKeys == 2
MaxLines == 2
MaxMtime == 2
MaxEvents == 2
MaxFileLines == 3
MaxText == 3
MaxWrapCols == 2
MaxDrawLines == 3
MaxDrawRows == 5
MaxFields == 3
MaxBlobLines == 2

(* ---------------------------------------------------------------------- *)
(* Program constants                                                       *)
(* ---------------------------------------------------------------------- *)
INP_NONE == 0
INP_HOME == 10000
INP_END == 10001
INP_QUIT == 10002
MaxCols == 120

(* Terminal sizes the environment may report (ws_col, ws_row are unsigned  *)
(* short).  Rows 4 gives one content row, rows 6 gives three; rows 10005   *)
(* and 10006 make a page (g_crows-1) equal to INP_END and INP_QUIT; rows 2  *)
(* leaves no content row (g_crows = -1).                                   *)
OrdinarySizes ==
  { [col |-> 8, row |-> 6], [col |-> 4, row |-> 6], [col |-> 8, row |-> 4] }
TallSizes ==
  { [col |-> 8, row |-> 10005], [col |-> 8, row |-> 10006] }
ShortSizes ==
  { [col |-> 8, row |-> 2] }
WinSizes == OrdinarySizes \cup TallSizes \cup ShortSizes

(* Keys the user can press and the bytes the terminal delivers for them.   *)
Keys == {"UP", "DOWN", "PGUP", "PGDN", "HOME", "END", "q"}
ScrollKeys == {"UP", "DOWN", "PGUP", "PGDN", "HOME"}

KeyBytes(k) ==
  CASE k = "UP"   -> <<"ESC", "[", "A">>
    [] k = "DOWN" -> <<"ESC", "[", "B">>
    [] k = "PGUP" -> <<"ESC", "[", "5", "~">>
    [] k = "PGDN" -> <<"ESC", "[", "6", "~">>
    [] k = "HOME" -> <<"ESC", "[", "H">>
    [] k = "END"  -> <<"ESC", "[", "F">>
    [] OTHER      -> <<k>>

RECURSIVE BytesOf(_)
BytesOf(ks) == IF ks = <<>> THEN <<>> ELSE KeyBytes(Head(ks)) \o BytesOf(Tail(ks))

Max(a, b) == IF a > b THEN a ELSE b
Min(a, b) == IF a < b THEN a ELSE b

(* ---------------------------------------------------------------------- *)
(* Transcript file content: a sequence of JSON lines, each reduced to what *)
(* the parser looks at.  blank: the line is empty once its line end is     *)
(* stripped; type: the value of the top-level "type" key ("absent": no     *)
(* such key); msg: a top-level "message" key is present, and then text,    *)
(* tool and usage describe the message: text is the visible length of a    *)
(* one-line plain text (the string content of a user message, the text     *)
(* block of an assistant message; 0: none), tool the number of tool_use    *)
(* blocks that follow the text block, usage maps the usage subfields       *)
(* present to their values.                                                *)
(* ---------------------------------------------------------------------- *)
NoUsage == [x \in {} |-> 0]
TLine(ty, tx, us) ==
  [blank |-> FALSE, type |-> ty, msg |-> TRUE, text |-> tx, tool |-> 0, usage |-> us]
TLineSet ==
  { TLine("user", 9, NoUsage),
    TLine("assistant", 5, [input_tokens |-> 10]) }

UsageKeys == {"input_tokens", "cache_creation_input_tokens", "cache_read_input_tokens"}

UsageField_accumulates(u, key, prev) == IF key \in DOMAIN u THEN prev + u[key] ELSE prev

UsageField_resetsMissing(u, key, prev) == IF key \in DOMAIN u THEN u[key] ELSE 0

(* if ((v = jfind(usg, key))) field = jint(v); *)
UsageField(u, key, prev) == IF key \in DOMAIN u THEN u[key] ELSE prev

(* if (len == 0) continue; ... if (!tv || !msg) continue; *)
Skipped(ln) == ln.blank \/ ln.type = "absent" \/ ~ln.msg

(* visible length of the line render_items makes of a tool_use item:       *)
(* the marker, a space, the name "Bash" and the label "(ls)"               *)
ToolLineLen == 12

LineItems_untypedIsUser(ln) ==
  IF ln.blank \/ ~ln.msg THEN <<>>
  ELSE IF ln.type = "assistant"
       THEN (IF ln.text > 0 THEN << [type |-> "IT_AST", vl |-> ln.text] >> ELSE <<>>)
            \o [i \in 1..ln.tool |-> [type |-> "IT_TU", vl |-> ToolLineLen]]
       ELSE IF ln.type \in {"user", "absent"} /\ ln.text > 0
            THEN << [type |-> "IT_HUM", vl |-> ln.text] >>
            ELSE <<>>

(* the items one line of the file contributes, in the order pushed *)
LineItems(ln) ==
  IF Skipped(ln) THEN <<>>
  ELSE IF ln.type = "assistant"
       THEN (IF ln.text > 0 THEN << [type |-> "IT_AST", vl |-> ln.text] >> ELSE <<>>)
            \o [i \in 1..ln.tool |-> [type |-> "IT_TU", vl |-> ToolLineLen]]
       ELSE IF ln.type = "user" /\ ln.text > 0
            THEN << [type |-> "IT_HUM", vl |-> ln.text] >>
            ELSE <<>>

(* li, lcc, lcr after one line of the file *)
LineUsage(ln, acc) ==
  IF ~Skipped(ln) /\ ln.type = "assistant"
  THEN [li  |-> UsageField(ln.usage, "input_tokens", acc.li),
        lcc |-> UsageField(ln.usage, "cache_creation_input_tokens", acc.lcc),
        lcr |-> UsageField(ln.usage, "cache_read_input_tokens", acc.lcr)]
  ELSE acc

RECURSIVE ParseItems_pushesFront(_)
ParseItems_pushesFront(content) ==
  IF content = <<>> THEN <<>>
  ELSE ParseItems_pushesFront(Tail(content)) \o LineItems(Head(content))

(* parse_transcript: the items, in file order *)
RECURSIVE ParseItems(_)
ParseItems(content) ==
  IF content = <<>> THEN <<>>
  ELSE LineItems(Head(content)) \o ParseItems(Tail(content))

(* parse_transcript: li, lcc, lcr after the whole file *)
RECURSIVE ParseUsage(_, _)
ParseUsage(content, acc) ==
  IF content = <<>> THEN acc
  ELSE ParseUsage(Tail(content), LineUsage(Head(content), acc))

(* int li = 0, lcc = 0, lcr = 0; *)
NoTokens == [li |-> 0, lcc |-> 0, lcr |-> 0]

(* parse_transcript: the value left in *out_tok, which the caller zeroed *)
ParseTok(content) ==
  LET u == ParseUsage(content, NoTokens)
      tot == u.li + u.lcc + u.lcr
  IN IF tot > 0 THEN tot ELSE 0

(* ---------------------------------------------------------------------- *)
(* vlen over the bytes of a string (1-based; the terminating NUL is the    *)
(* position Len(s) + 1)                                                    *)
(* ---------------------------------------------------------------------- *)
IsAlpha(b) == b \in {"a", "m", "h", "l"}

(* skip to the first letter or '~' and past it, or to the end *)
RECURSIVE CsiEnd(_, _)
CsiEnd(s, i) ==
  IF i > Len(s) THEN i
  ELSE IF IsAlpha(s[i]) \/ s[i] = "~" THEN i + 1
       ELSE CsiEnd(s, i + 1)

(* skip past the first BEL or ESC-backslash pair, or to the end *)
RECURSIVE OscEnd(_, _)
OscEnd(s, i) ==
  IF i > Len(s) THEN i
  ELSE IF s[i] = "BEL" THEN i + 1
       ELSE IF s[i] = "ESC" /\ i + 1 <= Len(s) /\ s[i + 1] = "\\" THEN i + 2
            ELSE OscEnd(s, i + 1)

RECURSIVE VlenFrom(_, _, _)
VlenFrom(s, i, n) ==
  IF i > Len(s) THEN n
  ELSE IF s[i] = "ESC"
       THEN IF i + 1 > Len(s) THEN VlenFrom(s, i + 1, n)
            ELSE IF s[i + 1] = "[" THEN VlenFrom(s, CsiEnd(s, i + 2), n)
            ELSE IF s[i + 1] = "]" THEN VlenFrom(s, OscEnd(s, i + 1), n)
            ELSE VlenFrom(s, i + 2, n)
       ELSE VlenFrom(s, i + 1, n + 1)

vlen(s) == VlenFrom(s, 1, 0)

(* the escape sequences text is wrapped in *)
RS == << "ESC", "[", "0", "m" >>
DI == << "ESC", "[", "2", "m" >>
UL_ON == << "ESC", "[", "4", "m" >>
UL_OFF == << "ESC", "[", "2", "4", "m" >>
OSC8 == << "ESC", "]", "8", ";", ";" >>

(* snprintf(b, sizeof(b), DI "%.*s" RS, ll, p) *)
ColorWrap(s) == DI \o s \o RS

(* linkify: OSC 8 ;; uri BEL, UL_ON label UL_OFF, OSC 8 ;; BEL *)
LinkWrap(uri, s) == OSC8 \o uri \o << "BEL" >> \o UL_ON \o s \o UL_OFF \o OSC8 \o << "BEL" >>

(* ---------------------------------------------------------------------- *)
(* Line buffer entries: k names the kind of line, v is vlen() of it.       *)
(* ---------------------------------------------------------------------- *)
BlankLine == [k |-> "blank", v |-> 0]

L_pushw_roundsDown(line, cols) ==
  LET extra == IF line.v > cols THEN line.v \div cols - 1 ELSE 0
  IN <<line>> \o [i \in 1..extra |-> BlankLine]

L_pushw(line, cols) ==
  LET extra == IF line.v > cols THEN (line.v + cols - 1) \div cols - 1 ELSE 0
  IN <<line>> \o [i \in 1..extra |-> BlankLine]

RenderItem(item, cols) ==
  IF item.type = "IT_HUM"
  THEN << [k |-> "humhdr", v |-> 8] >> \o L_pushw([k |-> "hum", v |-> item.vl], cols)
  ELSE IF item.type = "IT_TU"
       THEN L_pushw([k |-> "tu", v |-> item.vl], cols)
       ELSE << BlankLine >> \o L_pushw([k |-> "ast", v |-> item.vl], cols)

RECURSIVE render_items(_, _)
render_items(items, cols) ==
  IF items = <<>> THEN <<>>
  ELSE RenderItem(Head(items), cols) \o render_items(Tail(items), cols)

Trailer == << [k |-> "end", v |-> 39], BlankLine, BlankLine >>
NotFoundLine == [k |-> "notfound", v |-> 22]

(* the viewport offset that shows the end of n lines *)
EndOffset(n, crows) == Max(0, n - (crows - 1))

(* ---------------------------------------------------------------------- *)
(* poll_input over the bytes returned by one read                          *)
(* ---------------------------------------------------------------------- *)
RECURSIVE ScanInput(_, _, _, _)
ScanInput(buf, i, delta, crows) ==
  IF i > Len(buf) THEN delta
  ELSE IF buf[i] = "ESC" /\ i + 2 <= Len(buf) /\ buf[i+1] = "["
       THEN LET c == buf[i+2]
            IN IF c = "A" THEN ScanInput(buf, i + 3, delta - 1, crows)
               ELSE IF c = "B" THEN ScanInput(buf, i + 3, delta + 1, crows)
               ELSE IF c = "5" /\ i + 3 <= Len(buf) /\ buf[i+3] = "~" THEN -(crows - 1)
               ELSE IF c = "6" /\ i + 3 <= Len(buf) /\ buf[i+3] = "~" THEN crows - 1
               ELSE IF c = "H" THEN INP_HOME
               ELSE IF c = "F" THEN INP_END
               ELSE ScanInput(buf, i + 3, delta, crows)
       ELSE IF buf[i] \in {"q", "Q"} THEN INP_QUIT
            ELSE ScanInput(buf, i + 1, delta, crows)

poll_input(buf, crows) ==
  IF buf = <<>> THEN INP_NONE ELSE ScanInput(buf, 1, 0, crows)

(* ---------------------------------------------------------------------- *)
(* State                                                                   *)
(* ---------------------------------------------------------------------- *)
VARIABLES
  pc,          \* position of run_pager
  g_quit,      \* flag set by on_term
  g_resize,    \* flag set by on_winch
  handlers,    \* TRUE once signal() has installed on_term and on_winch
  g_cols, g_rows, g_crows,
  L,           \* the Line buffer
  off, uscroll, tok, last_mt, first, cc, sc,
  drawn,       \* a frame was drawn in the current iteration
  termRaw, mouseOn, cursorShown,
  restores,    \* number of times term_restore re-applied the saved mode
  editor_pid,  \* watched process id (0: no watch)
  procAlive,   \* the watched process exists
  hasPath,     \* the transcript path is non-empty
  file,        \* the transcript file: exists, readable, mtime, content
  ws,          \* size the terminal reports to TIOCGWINSZ
  ttyq,        \* keys pressed and not yet read
  events,      \* number of key presses, file writes and resizes so far
  it,          \* what the current iteration started from, while nothing
               \* has triggered a change in it
  werr,        \* the write of the frame drawn in this iteration failed
  rdfail,      \* the last poll of the transcript could not read it
  text,        \* the string handed to vlen and L_pushw
  items,       \* the Items parse_transcript filled (empty once I_free ran)
  usg,         \* li, lcc, lcr of parse_transcript
  frame,       \* g_ob[0..g_ol) as draw assembled it, piece by piece
  tty,         \* the pieces of the last frame the terminal received
  tu_input,    \* the fields of the input object of a tool_use element
  lbl,         \* char lbl[256] of the tool_use branch
  blobs,       \* the texts of consecutive IT_AST items, each a sequence of lines
  mdl,         \* the lines render_items pushed for them
  opener,      \* locals of turbodraft_path / generic_editor_path and the
               \* kill and waitpid calls they have made
  kids         \* the pager child and the editor child of the opener

geo == << g_cols, g_rows, g_crows >>
sig == << g_quit, g_resize, handlers >>
term == << termRaw, mouseOn, cursorShown, restores >>
doc == << L, tok, last_mt >>
view == << off, uscroll >>
flags == << first, cc, sc, drawn, werr, rdfail >>
progVars == << pc, sig, geo, term, doc, view, flags, it >>
envVars == << editor_pid, procAlive, hasPath, file, ws, ttyq, events >>
drawVars == << frame, tty >>
labelVars == << tu_input, lbl >>
mdVars == << blobs, mdl >>
openVars == << opener, kids >>
callVars == << text, items, usg, drawVars, labelVars, mdVars, openVars >>
vars == << progVars, envVars, callVars >>

LoopPcs == {"top", "live", "resize", "load", "input", "draw"}

Contents == UNION { [1..n -> TLineSet] : n \in 0..MaxLines }

NoSnapshot == [quiet |-> FALSE]
Snapshot == [quiet |-> TRUE, L0 |-> L, tok0 |-> tok, off0 |-> off, us0 |-> uscroll]

Init ==
  /\ pc = "start"
  /\ g_quit = 0 /\ g_resize = 0 /\ handlers = FALSE
  /\ g_cols = 100 /\ g_rows = 24 /\ g_crows = 21
  /\ L = <<>>
  /\ off = 0 /\ uscroll = 0 /\ tok = 0 /\ last_mt = 0 /\ first = 1
  /\ cc = 0 /\ sc = 0 /\ drawn = FALSE
  /\ termRaw = FALSE /\ mouseOn = FALSE /\ cursorShown = TRUE
  /\ restores = 0
  /\ editor_pid \in {0, 1}
  /\ procAlive = TRUE
  /\ hasPath \in BOOLEAN
  /\ file \in [exists : IF hasPath THEN BOOLEAN ELSE {FALSE}, readable : {TRUE},
               mtime : {1}, content : {<<>>}]
  /\ ws \in IF hasPath \/ editor_pid > 0 THEN OrdinarySizes ELSE OrdinarySizes \cup TallSizes
  /\ ttyq = <<>> /\ events = 0
  /\ it = NoSnapshot
  /\ werr = FALSE /\ rdfail = FALSE
  /\ text = <<>> /\ items = <<>> /\ usg = NoTokens
  /\ frame = <<>> /\ tty = <<>>
  /\ tu_input = <<>> /\ lbl = ""
  /\ blobs = <<>> /\ mdl = <<>>
  /\ opener = <<>> /\ kids = <<>>

(* ---------------------------------------------------------------------- *)
(* run_pager                                                               *)
(* ---------------------------------------------------------------------- *)

(* signal(SIGTERM, on_term); signal(SIGWINCH, on_winch) *)
InstallHandlers ==
  /\ pc = "start"
  /\ handlers' = TRUE
  /\ pc' = "setup"
  /\ UNCHANGED << g_quit, g_resize, geo, term, doc, view, flags, it, envVars, callVars >>

(* geo_update *)
GeoCols == IF ws.col > 0 THEN Min(ws.col, MaxCols) ELSE g_cols
GeoRows == IF ws.col > 0 THEN ws.row ELSE g_rows
geo_update ==
  /\ g_cols' = GeoCols
  /\ g_rows' = GeoRows
  /\ g_crows' = GeoRows - 3

(* geo_update(); term_raw(tty_fd); write(MOUSE_ON); the locals *)
Setup ==
  /\ pc = "setup"
  /\ geo_update
  /\ termRaw' = TRUE /\ mouseOn' = TRUE
  /\ pc' = "top"
  /\ UNCHANGED << sig, cursorShown, restores, doc, view, flags, it, envVars, callVars >>

LoopTop_ignoresQuit ==
  /\ pc = "top"
  /\ pc' = "live"
  /\ it' = IF first = 0 THEN Snapshot ELSE NoSnapshot
  /\ drawn' = FALSE
  /\ werr' = FALSE
  /\ UNCHANGED << sig, geo, term, doc, view, first, cc, sc, rdfail, envVars, callVars >>

(* while (!g_quit) *)
LoopTop ==
  /\ pc = "top"
  /\ IF g_quit # 0
     THEN pc' = "restore" /\ it' = NoSnapshot /\ drawn' = drawn
     ELSE /\ pc' = "live"
          /\ it' = IF first = 0 THEN Snapshot ELSE NoSnapshot
          /\ drawn' = FALSE
  /\ werr' = FALSE
  /\ UNCHANGED << sig, geo, term, doc, view, first, cc, sc, rdfail, envVars, callVars >>

(* if (editor_pid > 0 && kill(editor_pid, 0) != 0) break; *)
WatchedGone_inverted == editor_pid > 0 /\ procAlive

WatchedGone == editor_pid > 0 /\ ~procAlive

Liveness ==
  /\ pc = "live"
  /\ pc' = IF WatchedGone THEN "restore" ELSE "resize"
  /\ UNCHANGED << sig, geo, term, doc, view, flags, it, envVars, callVars >>

ResizeCheck_keepsFirst ==
  /\ pc = "resize"
  /\ IF g_resize # 0
     THEN /\ g_resize' = 0
          /\ geo_update
          /\ last_mt' = 0
          /\ it' = NoSnapshot
          /\ UNCHANGED first
     ELSE UNCHANGED << g_resize, geo, first, last_mt, it >>
  /\ pc' = "load"
  /\ UNCHANGED << g_quit, handlers, term, L, tok, view, cc, sc, drawn, werr, rdfail >>
  /\ UNCHANGED << envVars, callVars >>

(* if (g_resize) { g_resize = 0; geo_update(); first = 1; last_mt = 0; } *)
ResizeCheck ==
  /\ pc = "resize"
  /\ IF g_resize # 0
     THEN /\ g_resize' = 0
          /\ geo_update
          /\ first' = 1 /\ last_mt' = 0
          /\ it' = NoSnapshot
     ELSE UNCHANGED << g_resize, geo, first, last_mt, it >>
  /\ pc' = "load"
  /\ UNCHANGED << g_quit, handlers, term, L, tok, view, cc, sc, drawn, werr, rdfail >>
  /\ UNCHANGED << envVars, callVars >>

(* the Line buffer built from the transcript file *)
Rebuild(f, cols) ==
  (IF f.readable THEN render_items(ParseItems(f.content), cols) ELSE <<>>) \o Trailer

SnapOff_noPageMargin(us, o, n, crows) == IF us = 0 THEN Max(0, n - crows) ELSE o

(* the viewport after a rebuild *)
SnapOff(us, o, n, crows) == IF us = 0 THEN EndOffset(n, crows) ELSE o

(* the transcript was polled and could not be read: stat failed, or stat   *)
(* reported a new modification time and fopen failed                       *)
ReadFailed ==
  hasPath /\ (~file.exists \/ (file.mtime # last_mt /\ ~file.readable))

(* the stat / parse / render block, or the placeholder of an empty path *)
Load ==
  /\ pc = "load"
  /\ IF hasPath
     THEN IF file.exists /\ file.mtime # last_mt
          THEN /\ last_mt' = file.mtime
               /\ cc' = 1
               /\ tok' = IF file.readable THEN ParseTok(file.content) ELSE 0
               /\ L' = Rebuild(file, g_cols)
               /\ off' = SnapOff(uscroll, off, Len(L'), g_crows)
               /\ it' = NoSnapshot
          ELSE /\ cc' = 0
               /\ UNCHANGED << last_mt, tok, L, off, it >>
     ELSE IF first # 0
          THEN /\ cc' = 1
               /\ L' = Append(L, NotFoundLine)
               /\ it' = NoSnapshot
               /\ UNCHANGED << last_mt, tok, off >>
          ELSE /\ cc' = 0
               /\ UNCHANGED << last_mt, tok, L, off, it >>
  /\ pc' = "input"
  /\ rdfail' = ReadFailed
  /\ UNCHANGED << sig, geo, term, uscroll, first, sc, drawn, werr, envVars, callVars >>

(* off after a relative move: clamped to [0, max(0, n-1)] *)
ClampOff(o, n) == Min(Max(o, 0), IF n > 0 THEN n - 1 ELSE 0)

(* the handling of the value poll_input returned *)
InputOff(inp, o, n, crows) ==
  IF inp = INP_HOME THEN 0
  ELSE IF inp = INP_END THEN EndOffset(n, crows)
  ELSE IF inp # INP_NONE THEN ClampOff(o + inp, n)
  ELSE o

InputScrolled(inp, us) ==
  IF inp = INP_HOME THEN 1
  ELSE IF inp = INP_END THEN 0
  ELSE IF inp # INP_NONE THEN 1
  ELSE us

InputSc(inp) == IF inp # INP_NONE THEN 1 ELSE 0

(* int inp = poll_input(tty_fd); int sc = 0; ... *)
Input ==
  /\ pc = "input"
  /\ LET inp == poll_input(BytesOf(ttyq), g_crows)
     IN IF inp = INP_QUIT
        THEN /\ pc' = "restore"
             /\ UNCHANGED << off, uscroll, sc >>
        ELSE /\ pc' = "draw"
             /\ off' = InputOff(inp, off, Len(L), g_crows)
             /\ uscroll' = InputScrolled(inp, uscroll)
             /\ sc' = InputSc(inp)
  /\ it' = IF ttyq = <<>> THEN it ELSE NoSnapshot
  /\ ttyq' = <<>>
  /\ UNCHANGED << sig, geo, term, doc, first, cc, drawn, werr, rdfail >>
  /\ UNCHANGED << callVars, editor_pid, procAlive, hasPath, file, ws, events >>

(* draw: the entries of the Line buffer the frame shows (1-based):        *)
(* avail = g_crows - (off > 0 ? 1 : 0); for (i = off; i < end; i++)        *)
ShownLines(o, n, crows) ==
  { i \in 1..n : i > o /\ i <= o + (crows - (IF o > 0 THEN 1 ELSE 0)) }

NeedDraw_always == TRUE

(* if (cc || sc || first) *)
NeedDraw == cc # 0 \/ sc # 0 \/ first # 0

(* if (cc || sc || first) { draw(...); first = 0; }  usleep(...);          *)
(* cc and sc end with the loop body                                        *)
Draw ==
  /\ pc = "draw"
  /\ IF NeedDraw
     THEN /\ drawn' = TRUE /\ first' = 0 /\ cursorShown' = FALSE
          /\ \E written \in BOOLEAN : werr' = ~written
     ELSE UNCHANGED << drawn, first, cursorShown, werr >>
  /\ cc' = 0 /\ sc' = 0
  /\ pc' = "top"
  /\ UNCHANGED << sig, geo, termRaw, mouseOn, restores, doc, view, it, rdfail, envVars, callVars >>

term_restore_keepsRawMode ==
  /\ mouseOn' = FALSE /\ cursorShown' = TRUE /\ termRaw' = termRaw
  /\ restores' = restores + 1

(* term_restore *)
term_restore ==
  /\ mouseOn' = FALSE /\ cursorShown' = TRUE /\ termRaw' = FALSE
  /\ restores' = restores + 1

(* term_restore(); L_free(&L); return: the locals end with the call *)
Exit ==
  /\ pc = "restore"
  /\ term_restore
  /\ L' = <<>>
  /\ off' = 0 /\ uscroll' = 0 /\ tok' = 0 /\ last_mt' = 0 /\ first' = 0
  /\ rdfail' = FALSE
  /\ pc' = "done"
  /\ UNCHANGED << sig, geo, cc, sc, drawn, werr, it, envVars, callVars >>

PagerStep ==
  \/ InstallHandlers
  \/ Setup
  \/ LoopTop
  \/ Liveness
  \/ ResizeCheck
  \/ Load
  \/ Input
  \/ Draw
  \/ Exit

(* ---------------------------------------------------------------------- *)
(* Environment                                                             *)
(* ---------------------------------------------------------------------- *)
Running == pc \notin {"done", "killed"}

(* The watched process, the terminal size, the transcript file and the tty *)
(* queue are each read at one point of an iteration (the kill(pid, 0), the *)
(* resize check, the stat, the read), so a change made anywhere between    *)
(* two reads is observed exactly as one made just before the next read:    *)
(* these events are delivered there.  SIGTERM is delivered at every        *)
(* position.                                                               *)

(* SIGTERM: on_term sets g_quit; before the handler is installed the       *)
(* default action ends the process                                         *)
on_term ==
  IF handlers THEN g_quit' = 1 /\ pc' = pc
              ELSE g_quit' = g_quit /\ pc' = "killed"

SigTerm ==
  /\ Running
  /\ on_term
  /\ UNCHANGED << g_resize, handlers, geo, term, doc, view, flags, it, envVars, callVars >>

(* the terminal is resized: SIGWINCH, on_winch sets g_resize *)
TermResize ==
  /\ pc = "resize"
  /\ events < MaxEvents
  /\ \E w \in WinSizes \ {ws} : ws' = w
  /\ events' = events + 1
  /\ g_resize' = IF handlers THEN 1 ELSE g_resize
  /\ UNCHANGED << pc, g_quit, handlers, geo, term, doc, view, flags, it >>
  /\ UNCHANGED << callVars, editor_pid, procAlive, hasPath, file, ttyq >>

(* the watched process exits *)
ProcExit ==
  /\ pc = "live"
  /\ editor_pid > 0
  /\ procAlive
  /\ procAlive' = FALSE
  /\ UNCHANGED progVars
  /\ UNCHANGED << callVars, editor_pid, hasPath, file, ws, ttyq, events >>

(* the user presses a key *)
KeyPress ==
  /\ pc = "input"
  /\ events < MaxEvents
  /\ Len(ttyq) < MaxKeys
  /\ \E k \in Keys : ttyq' = Append(ttyq, k)
  /\ events' = events + 1
  /\ UNCHANGED progVars
  /\ UNCHANGED << callVars, editor_pid, procAlive, hasPath, file, ws >>

(* another process writes the transcript: appends a line or replaces the   *)
(* file by an empty one, in the same second or a later one                  *)
FileWrite ==
  /\ pc = "load"
  /\ hasPath
  /\ events < MaxEvents
  /\ \E c \in Contents, m \in {file.mtime, file.mtime + 1} :
        /\ m <= MaxMtime
        /\ \/ c = <<>> /\ file.content # <<>>
           \/ Len(c) = Len(file.content) + 1 /\ SubSeq(c, 1, Len(file.content)) = file.content
        /\ file' = [exists |-> TRUE, readable |-> file.readable, mtime |-> m, content |-> c]
  /\ events' = events + 1
  /\ UNCHANGED progVars
  /\ UNCHANGED << callVars, editor_pid, procAlive, hasPath, ws, ttyq >>

(* the permissions of the transcript change: the pager can no longer open *)
(* it, or can again; the modification time stays                           *)
FileChmod ==
  /\ pc = "load"
  /\ hasPath /\ file.exists
  /\ events < MaxEvents
  /\ file' = [file EXCEPT !.readable = ~file.readable]
  /\ events' = events + 1
  /\ UNCHANGED progVars
  /\ UNCHANGED << callVars, editor_pid, procAlive, hasPath, ws, ttyq >>

(* the transcript is removed *)
FileUnlink ==
  /\ pc = "load"
  /\ hasPath /\ file.exists
  /\ events < MaxEvents
  /\ file' = [exists |-> FALSE, readable |-> TRUE, mtime |-> file.mtime, content |-> <<>>]
  /\ events' = events + 1
  /\ UNCHANGED progVars
  /\ UNCHANGED << callVars, editor_pid, procAlive, hasPath, ws, ttyq >>

EnvStep ==
  \/ SigTerm
  \/ TermResize
  \/ ProcExit
  \/ KeyPress
  \/ FileWrite
  \/ FileChmod
  \/ FileUnlink

Next == PagerStep \/ EnvStep

Spec == Init /\ [][Next]_vars

(* the pager process is scheduled: its next statement eventually runs *)
FairSpec == Spec /\ WF_vars(PagerStep)

TypeOK ==
  /\ pc \in LoopPcs \cup {"start", "setup", "restore", "done", "killed"}
  /\ g_quit \in {0, 1} /\ g_resize \in {0, 1}
  /\ off \in Int /\ uscroll \in {0, 1}

(* ---------------------------------------------------------------------- *)
(* parse_transcript on its own: a file that grows by one line at a time    *)
(* and is parsed after each append, as the load block calls the parser     *)
(* (items zeroed, tok = 0, then parse_transcript).                         *)
(* ---------------------------------------------------------------------- *)
Usage3(a, b, c) ==
  [k \in UsageKeys |-> IF k = "input_tokens" THEN a
                       ELSE IF k = "cache_creation_input_tokens" THEN b ELSE c]

(* lines a transcript may hold: blank, without "type", without "message",  *)
(* of a type the parser ignores, user text, and assistant lines with text, *)
(* tool_use blocks and full, partial or no usage blocks                    *)
PLineSet ==
  { [blank |-> TRUE, type |-> "absent", msg |-> FALSE, text |-> 0, tool |-> 0, usage |-> NoUsage],
    [blank |-> FALSE, type |-> "absent", msg |-> TRUE, text |-> 5, tool |-> 0, usage |-> NoUsage],
    [blank |-> FALSE, type |-> "assistant", msg |-> FALSE, text |-> 0, tool |-> 0, usage |-> NoUsage],
    [blank |-> FALSE, type |-> "system", msg |-> TRUE, text |-> 5, tool |-> 0, usage |-> NoUsage],
    [blank |-> FALSE, type |-> "user", msg |-> TRUE, text |-> 9, tool |-> 0, usage |-> NoUsage],
    [blank |-> FALSE, type |-> "assistant", msg |-> TRUE, text |-> 5, tool |-> 0, usage |-> Usage3(100, 0, 0)],
    [blank |-> FALSE, type |-> "assistant", msg |-> TRUE, text |-> 5, tool |-> 1, usage |-> Usage3(50, 10, 0)],
    [blank |-> FALSE, type |-> "assistant", msg |-> TRUE, text |-> 0, tool |-> 1, usage |-> [input_tokens |-> 7]],
    [blank |-> FALSE, type |-> "assistant", msg |-> TRUE, text |-> 0, tool |-> 0, usage |-> [cache_read_input_tokens |-> 3]],
    [blank |-> FALSE, type |-> "assistant", msg |-> TRUE, text |-> 5, tool |-> 0, usage |-> NoUsage] }

(* the state of the pager loop, which these calls do not touch *)
loopVars ==
  << sig, geo, term, L, last_mt, view, flags, it,
     editor_pid, procAlive, hasPath, ws, ttyq, events >>

LoopIdle ==
  /\ g_quit = 0 /\ g_resize = 0 /\ handlers = FALSE
  /\ g_cols = 100 /\ g_rows = 24 /\ g_crows = 21
  /\ L = <<>>
  /\ off = 0 /\ uscroll = 0 /\ last_mt = 0 /\ first = 1
  /\ cc = 0 /\ sc = 0 /\ drawn = FALSE /\ werr = FALSE /\ rdfail = FALSE
  /\ termRaw = FALSE /\ mouseOn = FALSE /\ cursorShown = TRUE /\ restores = 0
  /\ editor_pid = 0 /\ procAlive = TRUE /\ hasPath = TRUE
  /\ ws = [col |-> 100, row |-> 24]
  /\ ttyq = <<>> /\ events = 0
  /\ it = NoSnapshot

ParseInit ==
  /\ LoopIdle
  /\ pc = "parsed"
  /\ file = [exists |-> TRUE, readable |-> TRUE, mtime |-> 1, content |-> <<>>]
  /\ items = <<>> /\ usg = NoTokens /\ tok = 0
  /\ text = <<>>
  /\ frame = <<>> /\ tty = <<>>
  /\ tu_input = <<>> /\ lbl = ""
  /\ blobs = <<>> /\ mdl = <<>>
  /\ opener = <<>> /\ kids = <<>>

(* another process appends one line to the transcript *)
AppendLine ==
  /\ pc = "parsed"
  /\ Len(file.content) < MaxFileLines
  /\ \E ln \in PLineSet : file' = [file EXCEPT !.content = Append(file.content, ln)]
  /\ pc' = "parse"
  /\ UNCHANGED << loopVars, items, usg, tok, text, drawVars, labelVars, mdVars, openVars >>

(* Items items; memset(&items, 0, ...); tok = 0; parse_transcript(...) *)
parse_transcript ==
  /\ pc = "parse"
  /\ items' = ParseItems(file.content)
  /\ usg' = ParseUsage(file.content, NoTokens)
  /\ tok' = ParseTok(file.content)
  /\ pc' = "parsed"
  /\ UNCHANGED << loopVars, file, text, drawVars, labelVars, mdVars, openVars >>

ParseNext == AppendLine \/ parse_transcript

ParseSpec == ParseInit /\ [][ParseNext]_vars

(* ---------------------------------------------------------------------- *)
(* vlen and L_pushw on their own: a string of bytes, wrapped or not in a   *)
(* color or hyperlink sequence, is pushed to an empty Line buffer of a     *)
(* terminal of g_cols columns.                                             *)
(* ---------------------------------------------------------------------- *)
TextBytes == {"a", "0", "ESC", "[", "]", "BEL", "\\"}
TextStrings == UNION { [1..n -> TextBytes] : n \in 0..MaxText }

wrapFrame ==
  << sig, g_rows, g_crows, term, last_mt, view, flags, it,
     editor_pid, procAlive, hasPath, ws, ttyq, events, file, tok, items, usg, drawVars, labelVars,
     mdVars, openVars >>

WrapInit ==
  /\ pc = "str"
  /\ text \in TextStrings
  /\ g_cols \in 1..MaxWrapCols
  /\ L = <<>>
  /\ g_quit = 0 /\ g_resize = 0 /\ handlers = FALSE
  /\ g_rows = 24 /\ g_crows = 21
  /\ off = 0 /\ uscroll = 0 /\ last_mt = 0 /\ first = 1
  /\ cc = 0 /\ sc = 0 /\ drawn = FALSE /\ werr = FALSE /\ rdfail = FALSE
  /\ termRaw = FALSE /\ mouseOn = FALSE /\ cursorShown = TRUE /\ restores = 0
  /\ editor_pid = 0 /\ procAlive = TRUE /\ hasPath = FALSE
  /\ ws = [col |-> g_cols, row |-> 24]
  /\ ttyq = <<>> /\ events = 0
  /\ it = NoSnapshot
  /\ file = [exists |-> FALSE, readable |-> TRUE, mtime |-> 1, content |-> <<>>]
  /\ items = <<>> /\ usg = NoTokens /\ tok = 0
  /\ frame = <<>> /\ tty = <<>>
  /\ tu_input = <<>> /\ lbl = ""
  /\ blobs = <<>> /\ mdl = <<>>
  /\ opener = <<>> /\ kids = <<>>

(* the text is wrapped in a color sequence and a reset *)
WrapColor ==
  /\ pc = "str"
  /\ text' = ColorWrap(text)
  /\ pc' = "wrapped"
  /\ UNCHANGED << wrapFrame, g_cols, L >>

(* the text becomes the label of a hyperlink *)
WrapLink ==
  /\ pc = "str"
  /\ text' = LinkWrap(<< "a" >>, text)
  /\ pc' = "wrapped"
  /\ UNCHANGED << wrapFrame, g_cols, L >>

(* L_pushw(&L, text) *)
PushText ==
  /\ pc \in {"str", "wrapped"}
  /\ L' = L_pushw([k |-> "text", v |-> vlen(text)], g_cols)
  /\ pc' = "pushed"
  /\ UNCHANGED << wrapFrame, g_cols, text >>

WrapNext == WrapColor \/ WrapLink \/ PushText

WrapSpec == WrapInit /\ [][WrapNext]_vars

(* ---------------------------------------------------------------------- *)
(* draw and ob_flush on their own: one frame is assembled in g_ob for a    *)
(* Line buffer, an offset and a geometry, and flushed with one write.  A   *)
(* piece is one ob/obf call; a names the row, offset or index it carries.  *)
(* ---------------------------------------------------------------------- *)
Piece(p, a) == [p |-> p, a |-> a]

FramePrefix_neverClears(fst) == << Piece("hide", 0), Piece("home", 0) >>

(* if (first) hide, clear, home; else hide, home *)
FramePrefix(fst) ==
  IF fst # 0 THEN << Piece("hide", 0), Piece("clear", 0), Piece("home", 0) >>
             ELSE << Piece("hide", 0), Piece("home", 0) >>

(* int avail = g_crows - (off>0 ? 1 : 0); *)
DrawAvail(o, crows) == crows - (IF o > 0 THEN 1 ELSE 0)

(* int end = off + avail; if (end > L->n) end = L->n; *)
DrawEnd(o, n, crows) ==
  IF o + DrawAvail(o, crows) > n THEN n ELSE o + DrawAvail(o, crows)

DrawReads_noEndClamp(o, n, crows) == o .. (o + DrawAvail(o, crows) - 1)

(* for (int i = off; i < end; i++): the indices i at which L->d[i] is read *)
DrawReads(o, n, crows) == o .. (DrawEnd(o, n, crows) - 1)

(* the pieces draw puts into g_ob, in order *)
DrawFrame(o, n, fst, rows, crows) ==
  LET ind == IF o > 0 THEN << Piece("above", o) >> ELSE <<>>
      cnt == Cardinality(DrawReads(o, n, crows))
      lines == [j \in 1..cnt |-> Piece("line", o + j - 1)]
      row == 2 + Len(ind) + cnt
      pad == [j \in 1..((rows - 1) - row) |-> Piece("pad", 0)]
  IN FramePrefix(fst) \o << Piece("sep", 0) >> \o ind \o lines \o pad
       \o << Piece("goto", rows - 1), Piece("sep", 0),
             Piece("goto", rows), Piece("status", 0) >>

(* write(g_fd, g_ob, g_ol): the terminal takes the first k pieces; k = 0   *)
(* is a write that failed                                                  *)
Received(fr, k) == SubSeq(fr, 1, k)

drawRest ==
  << sig, g_cols, g_rows, g_crows, term, L, last_mt, view, flags, it,
     editor_pid, procAlive, hasPath, ws, ttyq, events, file, tok, text, items, usg,
     labelVars, mdVars, openVars >>

DrawInit ==
  /\ pc = "frame"
  /\ \E n \in 0..MaxDrawLines : L = [i \in 1..n |-> [k |-> "text", v |-> i]]
  /\ off \in 0..(MaxDrawLines + 2)
  /\ g_rows \in 0..MaxDrawRows
  /\ g_crows = g_rows - 3
  /\ g_cols = 8
  /\ first \in {0, 1}
  /\ frame = <<>> /\ tty = <<>>
  /\ tu_input = <<>> /\ lbl = ""
  /\ blobs = <<>> /\ mdl = <<>>
  /\ opener = <<>> /\ kids = <<>>
  /\ g_quit = 0 /\ g_resize = 0 /\ handlers = TRUE
  /\ uscroll = 0 /\ last_mt = 0
  /\ cc = 0 /\ sc = 0 /\ drawn = FALSE /\ werr = FALSE /\ rdfail = FALSE
  /\ termRaw = TRUE /\ mouseOn = TRUE /\ cursorShown = TRUE /\ restores = 0
  /\ editor_pid = 0 /\ procAlive = TRUE /\ hasPath = FALSE
  /\ ws = [col |-> 8, row |-> g_rows]
  /\ ttyq = <<>> /\ events = 0
  /\ it = NoSnapshot
  /\ file = [exists |-> FALSE, readable |-> TRUE, mtime |-> 1, content |-> <<>>]
  /\ items = <<>> /\ usg = NoTokens /\ tok = 0
  /\ text = <<>>

(* draw(&L, off, tok, pct, cl, first), ending in ob_flush *)
draw ==
  /\ pc = "frame"
  /\ frame' = DrawFrame(off, Len(L), first, g_rows, g_crows)
  /\ \E k \in 0..Len(frame') : tty' = Received(frame', k)
  /\ pc' = "flushed"
  /\ UNCHANGED drawRest

DrawNext == draw

DrawSpec == DrawInit /\ [][DrawNext]_vars

(* ---------------------------------------------------------------------- *)
(* The label of a tool_use element on its own.  The input object is the    *)
(* sequence of its fields in file order; str tells whether the value is a  *)
(* JSON string and val is that string (for another value, its text).       *)
(* ---------------------------------------------------------------------- *)
lbl_keys ==
  << "command", "file_path", "path", "pattern", "query", "url", "content", "description" >>

FieldKeys == {"path", "command", "timeout", "note"}
FieldSet ==
  [key : FieldKeys, str : {TRUE}, val : {"s1", "s2", ""}] \cup
  [key : FieldKeys, str : {FALSE}, val : {"7"}]
InputSet ==
  { f \in UNION { [1..n -> FieldSet] : n \in 0..MaxFields } :
      \A i, j \in 1..Len(f) : i # j => f[i].key # f[j].key }

(* jfind: the first field of the object with that key (0: none) *)
jfind(obj, key) ==
  IF \E i \in 1..Len(obj) : obj[i].key = key
  THEN CHOOSE i \in 1..Len(obj) :
         obj[i].key = key /\ \A j \in 1..(i - 1) : obj[j].key # key
  ELSE 0

(* for (k = 0; lbl_keys[k]; k++) { lv = jfind(inp, lbl_keys[k]);           *)
(*   if (lv && *lv == '"') { jstr(lv, lbl, sizeof(lbl)); break; } }        *)
RECURSIVE PriorityLabel(_, _)
PriorityLabel(obj, k) ==
  IF k > Len(lbl_keys) THEN ""
  ELSE LET i == jfind(obj, lbl_keys[k])
       IN IF i > 0 /\ obj[i].str THEN obj[i].val ELSE PriorityLabel(obj, k + 1)

(* if (!lbl[0]): the value of the first field of the object, if a string *)
FirstFieldLabel(obj) == IF Len(obj) > 0 /\ obj[1].str THEN obj[1].val ELSE ""

ToolLabel(obj) ==
  IF PriorityLabel(obj, 1) # "" THEN PriorityLabel(obj, 1) ELSE FirstFieldLabel(obj)

labelRest == << loopVars, file, tok, text, items, usg, drawVars, mdVars, openVars >>

LabelInit ==
  /\ LoopIdle
  /\ pc = "tool"
  /\ tu_input \in InputSet
  /\ lbl = ""
  /\ file = [exists |-> TRUE, readable |-> TRUE, mtime |-> 1, content |-> <<>>]
  /\ items = <<>> /\ usg = NoTokens /\ tok = 0
  /\ text = <<>>
  /\ frame = <<>> /\ tty = <<>>
  /\ blobs = <<>> /\ mdl = <<>>
  /\ opener = <<>> /\ kids = <<>>

(* the tool_use branch of parse_transcript, up to the label *)
tool_use_label ==
  /\ pc = "tool"
  /\ lbl' = ToolLabel(tu_input)
  /\ pc' = "labelled"
  /\ UNCHANGED << labelRest, tu_input >>

LabelNext == tool_use_label

LabelSpec == LabelInit /\ [][LabelNext]_vars

(* ---------------------------------------------------------------------- *)
(* render_md on its own: consecutive IT_AST items are rendered, each text  *)
(* line by line.  A line is the sequence of its characters; a pushed line  *)
(* is recorded as its kind, the item and the text line it came from.       *)
(* ---------------------------------------------------------------------- *)
MdLineSet ==
  { << "BT", "BT", "BT" >>, << "BT", "BT", "BT", "x" >>, << "#", " ", "x" >>,
    << "-", " ", "x" >>, << "1", ".", " ", "x" >>, << "x" >>, << >> }
(* the text of an item is trimmed and not empty: its first and last line   *)
(* are not empty                                                           *)
BlobSet ==
  { t \in UNION { [1..n -> MdLineSet] : n \in 1..MaxBlobLines } :
      t[1] # << >> /\ t[Len(t)] # << >> }

(* lb[i] of the NUL-terminated line buffer (0-based i) *)
At(lb, i) == IF i + 1 <= Len(lb) THEN lb[i + 1] ELSE "NUL"

IsFence_bareOnly(lb) == lb = << "BT", "BT", "BT" >>

(* the first three characters of lb are backticks (BT) *)
IsFence(lb) == At(lb, 0) = "BT" /\ At(lb, 1) = "BT" /\ At(lb, 2) = "BT"

(* the length of the run of characters of cs that lb starts with *)
RECURSIVE RunLen(_, _, _)
RunLen(lb, cs, i) == IF At(lb, i) \in cs THEN RunLen(lb, cs, i + 1) ELSE i

(* the lines pushed for one line outside a fence: header, bullet,          *)
(* numbered item, inline-formatted text or blank                           *)
MdPlain(lb) ==
  LET lv == RunLen(lb, {"#"}, 0)
      ind == RunLen(lb, {" "}, 0)
      d == RunLen(lb, {"0", "1"}, 0)
  IN IF At(lb, 0) = "#" /\ At(lb, lv) = " "
     THEN (IF lv = 1 THEN << "blank", "header", "rule" >>
           ELSE IF lv = 2 THEN << "blank", "header" >> ELSE << "header" >>)
     ELSE IF At(lb, ind) \in {"-", "*"} /\ At(lb, ind + 1) = " " THEN << "bullet" >>
     ELSE IF d > 0 /\ At(lb, d) = "." /\ At(lb, d + 1) = " " THEN << "numbered" >>
     ELSE IF At(lb, 0) # "NUL" THEN << "inline" >>
     ELSE << "blank" >>

Pushed(kinds, b, i) == [j \in 1..Len(kinds) |-> [k |-> kinds[j], blob |-> b, line |-> i]]

(* the loop of render_md from line i on, in_code as it stands *)
RECURSIVE MdFrom(_, _, _, _)
MdFrom(blob, b, i, in_code) ==
  IF i > Len(blob) THEN <<>>
  ELSE IF IsFence(blob[i]) THEN MdFrom(blob, b, i + 1, ~in_code)
  ELSE IF in_code THEN Pushed(<< "code" >>, b, i) \o MdFrom(blob, b, i + 1, in_code)
  ELSE Pushed(MdPlain(blob[i]), b, i) \o MdFrom(blob, b, i + 1, in_code)

(* int in_code = 0; ... *)
render_md(blob, b) == MdFrom(blob, b, 1, FALSE)

(* case IT_AST: L_push(L, ""); render_md(L, it->text); for each item *)
RECURSIVE RenderAst(_, _)
RenderAst(bs, b) ==
  IF b > Len(bs) THEN <<>>
  ELSE Pushed(<< "blank" >>, b, 0) \o render_md(bs[b], b) \o RenderAst(bs, b + 1)

mdRest == << loopVars, file, tok, text, items, usg, drawVars, labelVars, openVars >>

MdInit ==
  /\ LoopIdle
  /\ pc = "md"
  /\ blobs \in BlobSet \X BlobSet
  /\ mdl = <<>>
  /\ file = [exists |-> TRUE, readable |-> TRUE, mtime |-> 1, content |-> <<>>]
  /\ items = <<>> /\ usg = NoTokens /\ tok = 0
  /\ text = <<>>
  /\ frame = <<>> /\ tty = <<>>
  /\ tu_input = <<>> /\ lbl = ""
  /\ opener = <<>> /\ kids = <<>>

(* render_items over the IT_AST items *)
RenderBlobs ==
  /\ pc = "md"
  /\ mdl' = RenderAst(blobs, 1)
  /\ pc' = "rendered"
  /\ UNCHANGED << mdRest, blobs >>

MdNext == RenderBlobs

MdSpec == MdInit /\ [][MdNext]_vars

(* ---------------------------------------------------------------------- *)
(* claude-pager-open: turbodraft_path and generic_editor_path              *)
(* ---------------------------------------------------------------------- *)

(* Iterations of the quick-exit probe loop, for (int i = 0; i < 15; i++). *)
MaxProbes == 2

(* Process ids fork() hands to the parent. *)
PagerPid == 7
EdPid == 5

(* fork(): -1 when no child was created, else the pid of the child. *)
ForkResults(child) == { -1, child }

OpenerPaths == { "turbodraft", "generic" }

(* Locals of the path function; kills and waits collect the pid arguments
   of kill(pager_pid, SIGTERM) and waitpid(pager_pid, NULL, 0), broadcast
   is set once kill was called with -1. *)
OpenerLocals(path) ==
  [ path |-> path, pager_pid |-> 0, ed_pid |-> 0, gui |-> FALSE, i |-> 0,
    rc |-> 0, then |-> "ret", kills |-> {}, waits |-> {},
    broadcast |-> FALSE ]

(* SIGTERM arriving at the pager child: the default action ends it while
   signal(SIGTERM, on_term) has not run, on_term sets g_quit afterwards;
   a process that has already exited is not affected. *)
Deliver_lost(st) == st

Deliver(st) ==
  CASE st = "start" -> "zombie"
    [] st = "loop"  -> "quit"
    [] OTHER        -> st

(* kill(pid, SIGTERM) as the opener calls it: pid > 0 names one process,
   -1 every process the caller may signal. *)
Kill(pid) ==
  /\ opener' = [opener EXCEPT !.kills = @ \cup { pid },
                              !.broadcast = @ \/ pid = -1]
  /\ kids' = IF pid = PagerPid \/ pid = -1
             THEN [kids EXCEPT !.pager = Deliver(@)]
             ELSE kids

openRest == << loopVars, file, tok, text, items, usg, drawVars, labelVars, mdVars >>

OpenInit ==
  /\ LoopIdle
  /\ pc \in { "td_open", "ge_spawn" }
  /\ opener = OpenerLocals(IF pc = "td_open" THEN "turbodraft" ELSE "generic")
  /\ kids = [pager |-> "none", editor |-> "none"]
  /\ file = [exists |-> TRUE, readable |-> TRUE, mtime |-> 1, content |-> <<>>]
  /\ items = <<>> /\ usg = NoTokens /\ tok = 0
  /\ text = <<>>
  /\ frame = <<>> /\ tty = <<>>
  /\ tu_input = <<>> /\ lbl = ""
  /\ blobs = <<>> /\ mdl = <<>>

(* if (send_msg(fd, open_msg) < 0) { close(fd); return -1; } *)
td_open ==
  /\ pc = "td_open"
  /\ \E sent \in BOOLEAN :
       IF sent THEN pc' = "td_fork" /\ UNCHANGED opener
       ELSE pc' = "ret" /\ opener' = [opener EXCEPT !.rc = -1]
  /\ UNCHANGED << openRest, kids >>

(* pid_t pager_pid = fork_pager((int)getpid()); *)
td_fork ==
  /\ pc = "td_fork"
  /\ \E pid \in ForkResults(PagerPid) :
       /\ opener' = [opener EXCEPT !.pager_pid = pid]
       /\ kids' = [kids EXCEPT !.pager = IF pid > 0 THEN "start" ELSE "none"]
  /\ pc' = "td_resp"
  /\ UNCHANGED openRest

(* resp = recv_msg(fd); if (!resp) {...return 1;}
   if (!session_id[0]) {...return 1;} *)
td_resp ==
  /\ pc = "td_resp"
  /\ \E resp \in { "none", "noid", "id" } :
       IF resp = "id" THEN pc' = "td_wait" /\ UNCHANGED opener
       ELSE pc' = "td_kill" /\ opener' = [opener EXCEPT !.rc = 1]
  /\ UNCHANGED << openRest, kids >>

(* if (send_msg(fd, wait_msg) < 0) { kill...; waitpid...; return 0; } *)
td_wait ==
  /\ pc = "td_wait"
  /\ \E sent \in BOOLEAN : pc' = IF sent THEN "td_resp3" ELSE "td_kill"
  /\ opener' = [opener EXCEPT !.rc = 0]
  /\ UNCHANGED << openRest, kids >>

(* char *resp3 = recv_msg(fd); ... close(fd); *)
td_resp3 ==
  /\ pc = "td_resp3"
  /\ pc' = "td_kill"
  /\ UNCHANGED << openRest, opener, kids >>

(* kill(pager_pid, SIGTERM); *)
td_kill ==
  /\ pc = "td_kill"
  /\ Kill(opener.pager_pid)
  /\ pc' = "td_reap"
  /\ UNCHANGED openRest

(* waitpid(pager_pid, NULL, 0): blocks until the child named has exited;
   with -1 it waits for any child and fails at once when there is none. *)
td_reap ==
  /\ pc = "td_reap"
  /\ IF opener.pager_pid > 0
     THEN /\ kids.pager = "zombie"
          /\ kids' = [kids EXCEPT !.pager = "reaped"]
     ELSE UNCHANGED kids
  /\ opener' = [opener EXCEPT !.waits = @ \cup { opener.pager_pid }]
  /\ pc' = "ret"
  /\ UNCHANGED openRest

(* forced_gui || known_gui; ed_pid = spawn_editor(...);
   if (ed_pid < 0) return 1; *)
ge_spawn ==
  /\ pc = "ge_spawn"
  /\ \E g \in BOOLEAN, pid \in ForkResults(EdPid) :
       /\ opener' = [opener EXCEPT !.gui = g, !.ed_pid = pid,
                                   !.rc = IF pid < 0 THEN 1 ELSE 0]
       /\ kids' = [kids EXCEPT !.editor = IF pid > 0 THEN "run" ELSE "none"]
       /\ pc' = IF pid < 0 THEN "ret" ELSE "ge_fork"
  /\ UNCHANGED openRest

(* pid_t pager_pid = fork_pager((int)ed_pid); *)
ge_fork ==
  /\ pc = "ge_fork"
  /\ \E pid \in ForkResults(PagerPid) :
       /\ opener' = [opener EXCEPT !.pager_pid = pid]
       /\ kids' = [kids EXCEPT !.pager = IF pid > 0 THEN "start" ELSE "none"]
  /\ pc' = IF opener.gui THEN "ge_edwait" ELSE "ge_probe"
  /\ UNCHANGED openRest

(* for (i < 15) { usleep(10000);
     if (waitpid(ed_pid, &probe_status, WNOHANG) > 0) {...} } *)
ge_probe ==
  /\ pc = "ge_probe"
  /\ IF opener.i >= MaxProbes
     THEN pc' = "ge_edwait" /\ UNCHANGED << opener, kids >>
     ELSE IF kids.editor = "exited"
     THEN /\ kids' = [kids EXCEPT !.editor = "reaped"]
          /\ opener' = [opener EXCEPT !.then = "exec"]
          /\ pc' = "ge_kill"
     ELSE /\ opener' = [opener EXCEPT !.i = @ + 1]
          /\ UNCHANGED << pc, kids >>
  /\ UNCHANGED openRest

(* waitpid(ed_pid, &status, 0); *)
ge_edwait ==
  /\ pc = "ge_edwait"
  /\ kids.editor = "exited"
  /\ kids' = [kids EXCEPT !.editor = "reaped"]
  /\ pc' = "ge_kill"
  /\ UNCHANGED << openRest, opener >>

(* if (pager_pid > 0) { kill(pager_pid, SIGTERM); ... *)
ge_kill ==
  /\ pc = "ge_kill"
  /\ IF opener.pager_pid > 0
     THEN Kill(opener.pager_pid) /\ pc' = "ge_reap"
     ELSE pc' = opener.then /\ UNCHANGED << opener, kids >>
  /\ UNCHANGED openRest

(* ... waitpid(pager_pid, NULL, 0); }  return 0;  or
   return terminal_editor_path(editor, file); *)
ge_reap ==
  /\ pc = "ge_reap"
  /\ kids.pager = "zombie"
  /\ kids' = [kids EXCEPT !.pager = "reaped"]
  /\ opener' = [opener EXCEPT !.waits = @ \cup { opener.pager_pid }]
  /\ pc' = opener.then
  /\ UNCHANGED openRest

(* fork_pager's child: tty_fd = open("/dev/tty", O_RDWR);
   if (tty_fd >= 0) {...}  _exit(0); *)
PagerNoTty ==
  /\ kids.pager = "start"
  /\ kids' = [kids EXCEPT !.pager = "zombie"]
  /\ UNCHANGED << pc, openRest, opener >>

(* run_pager: signal(SIGTERM, on_term); *)
PagerInstall ==
  /\ kids.pager = "start"
  /\ kids' = [kids EXCEPT !.pager = "loop"]
  /\ UNCHANGED << pc, openRest, opener >>

(* while (!g_quit) ends; term_restore; _exit(0) in the child *)
PagerQuit ==
  /\ kids.pager = "quit"
  /\ kids' = [kids EXCEPT !.pager = "zombie"]
  /\ UNCHANGED << pc, openRest, opener >>

(* if (editor_pid > 0 && kill(editor_pid, 0) != 0) break;
   the watched pid is the opener on the TurboDraft path, which is alive,
   and the editor otherwise, whose pid exists until the opener reaped it *)
PagerWatchGone ==
  /\ kids.pager \in { "loop", "quit" }
  /\ opener.path = "generic" /\ kids.editor = "reaped"
  /\ kids' = [kids EXCEPT !.pager = "zombie"]
  /\ UNCHANGED << pc, openRest, opener >>

(* a q key read by poll_input ends the loop *)
PagerKeyQuit ==
  /\ kids.pager = "loop"
  /\ kids' = [kids EXCEPT !.pager = "zombie"]
  /\ UNCHANGED << pc, openRest, opener >>

(* the editor process ends (the user closed it, or the exec failed) *)
EditorExit ==
  /\ kids.editor = "run"
  /\ kids' = [kids EXCEPT !.editor = "exited"]
  /\ UNCHANGED << pc, openRest, opener >>

OpenerKillReap == td_kill \/ td_reap \/ ge_kill \/ ge_reap

OpenerStep ==
  \/ td_open \/ td_fork \/ td_resp \/ td_wait \/ td_resp3
  \/ ge_spawn \/ ge_fork \/ ge_probe \/ ge_edwait
  \/ OpenerKillReap

PagerChildStep == PagerNoTty \/ PagerInstall \/ PagerQuit \/ PagerWatchGone

OpenNext == OpenerStep \/ PagerChildStep \/ PagerKeyQuit \/ EditorExit

OpenSpec == OpenInit /\ [][OpenNext]_vars

(* The opener runs on while it can, and so does the pager child. *)
OpenFairSpec ==
  OpenSpec /\ WF_vars(OpenerKillReap) /\ WF_vars(PagerQuit \/ PagerWatchGone)

(* ---------------------------------------------------------------------- *)
(* Properties                                                              *)
(* ---------------------------------------------------------------------- *)
HasKey(q, ks) == \E i \in 1..Len(q) : q[i] \in ks

(* C1: when a watched process (pid > 0) no longer exists while the loop    *)
(* runs, the liveness check at the top of the iteration leaves the loop    *)
(* and run_pager eventually returns.                                       *)
C1_WatchedGoneReturns ==
  /\ [][(pc = "live" /\ editor_pid > 0 /\ ~procAlive /\ pc' # pc) => pc' = "restore"]_vars
  /\ ((editor_pid > 0 /\ ~procAlive /\ pc \in LoopPcs) ~> (pc = "done"))

C1_Witness ==
  pc = "done" /\ editor_pid > 0 /\ ~procAlive /\ g_quit = 0 /\ events = 0 /\ restores = 1

(* C2: however the loop ends, the terminal is restored (mouse reporting    *)
(* off, cursor shown, saved mode re-applied) exactly once, not before the  *)
(* loop has ended and before run_pager returns.                            *)
C2_RestoredExactlyOnce ==
  /\ restores <= 1
  /\ (pc \in LoopPcs \cup {"restore"} => restores = 0 /\ termRaw)
  /\ (pc = "done" => restores = 1 /\ ~termRaw /\ ~mouseOn /\ cursorShown)

C2_Witness ==
  pc = "done" /\ restores = 1 /\ ~termRaw /\ g_quit = 0 /\ procAlive /\ events > 0

(* C3: the loop is left only because the watched process (pid > 0) is      *)
(* gone, because the quit flag is set, or because the user pressed q/Q.    *)
C3_OnlyThreeReasons ==
  [][(pc \in LoopPcs /\ pc' = "restore") =>
       \/ (pc = "live" /\ editor_pid > 0 /\ ~procAlive)
       \/ (pc = "top" /\ g_quit = 1)
       \/ (pc = "input" /\ HasKey(ttyq, {"q", "Q"}))]_vars

(* C4: SIGTERM only sets the flag; the flag is observed at the top of the  *)
(* next iteration, after which nothing is parsed or drawn, the terminal is *)
(* restored and run_pager returns; the terminal is never in raw mode       *)
(* without the handler installed.                                          *)
C4_TermIsCooperative ==
  /\ [](termRaw => handlers)
  /\ [][(g_quit' # g_quit) => (pc' = pc /\ UNCHANGED << term, doc, view, flags >>)]_vars
  /\ [][(pc = "top" /\ g_quit = 1 /\ pc' # pc) => pc' = "restore"]_vars
  /\ [][(pc \in {"restore", "done"}) => (drawn' = drawn /\ cc' = cc /\ L' \in {L, <<>>})]_vars
  /\ ((g_quit = 1 /\ pc \in LoopPcs) ~> (pc = "done" /\ restores = 1 /\ ~termRaw))

C4_Witness ==
  pc = "done" /\ g_quit = 1 /\ restores = 1 /\ events = 0 /\ procAlive /\ drawn

(* C5: Page Down then q: once the q has been read the loop terminates with *)
(* the offset advanced by one page, whether q arrives in a read of its own *)
(* or in the same read as Page Down, and the terminal is restored once.    *)
C5_PageDownThenQuit ==
  /\ [][(pc = "input" /\ ttyq = <<"q">> /\ pc' # pc) => pc' = "restore"]_vars
  /\ [][(pc = "input" /\ ttyq = <<"PGDN", "q">> /\ pc' # pc) =>
          (pc' = "restore" /\ off' = ClampOff(off + (g_crows - 1), Len(L)))]_vars
  /\ [](pc = "done" => restores = 1)

(* C6: after an iteration whose read held at least one scroll/navigation   *)
(* key, userScrolled is true.                                              *)
C6_ScrollKeySetsUserScrolled ==
  [][(pc = "input" /\ pc' = "draw" /\ HasKey(ttyq, ScrollKeys)) => uscroll' = 1]_vars

(* C7: userScrolled goes from true to false only in an iteration that      *)
(* reads the End key, and a rebuild made while it is true leaves the       *)
(* offset unchanged.                                                       *)
C7_OnlyEndClearsUserScrolled ==
  /\ [][(pc \in LoopPcs /\ uscroll = 1 /\ uscroll' = 0) =>
          (pc = "input" /\ HasKey(ttyq, {"END"}))]_vars
  /\ [][(pc = "load" /\ pc' = "input" /\ uscroll = 1) => off' = off]_vars

(* C8: right after a transcript rebuild made while userScrolled is false,  *)
(* scrollOffset = max(0, lineCount - (contentRows - 1)).                   *)
C8_RebuildSnapsToEnd ==
  (pc = "input" /\ hasPath /\ cc = 1 /\ uscroll = 0) =>
     off = (IF Len(L) - (g_crows - 1) > 0 THEN Len(L) - (g_crows - 1) ELSE 0)

C8_Witness ==
  pc = "input" /\ hasPath /\ cc = 1 /\ uscroll = 0 /\ Len(L) > 3 /\ off > 0 /\ first = 0

(* C9: whenever a frame is drawn, 0 <= scrollOffset <= max(0, lineCount-1) *)
C9_OffsetClampedAtDraw ==
  (pc = "draw" /\ NeedDraw) =>
     (0 <= off /\ off <= (IF Len(L) > 0 THEN Len(L) - 1 ELSE 0))

(* C10: an iteration that is not the first, sees no resize, finds the      *)
(* transcript modification time unchanged and reads no input draws nothing *)
(* and leaves the Line buffer, the usage total, scrollOffset and           *)
(* userScrolled as they were.                                              *)
C10_QuietIterationChangesNothing ==
  (pc \in LoopPcs /\ it.quiet) =>
     (~drawn /\ L = it.L0 /\ tok = it.tok0 /\ off = it.off0 /\ uscroll = it.us0)

C10_Witness ==
  pc = "top" /\ it.quiet /\ hasPath /\ file.exists /\ last_mt = file.mtime /\ Len(L) > 3

IsPrefix(p, q) == Len(p) <= Len(q) /\ SubSeq(q, 1, Len(p)) = p

LastLine == file.content[Len(file.content)]

(* C11: the items parsed from a file F are a prefix of the items parsed    *)
(* from F followed by appended lines: parsing keeps file order, an         *)
(* appended line removes or reorders no earlier item, the item count never *)
(* decreases, and the added items are those of the appended line.          *)
C11_ItemsPrefixUnderAppend ==
  [][(pc = "parse" /\ pc' = "parsed") =>
       /\ IsPrefix(items, items')
       /\ Len(items') >= Len(items)
       /\ SubSeq(items', Len(items) + 1, Len(items')) = LineItems(LastLine)]_vars

C11_Witness ==
  /\ pc = "parsed" /\ Len(file.content) = 3 /\ Len(items) = 4
  /\ items[1].type = "IT_HUM" /\ items[2].type = "IT_AST"
  /\ items[3].type = "IT_TU" /\ items[4].type = "IT_AST"

(* an assistant line the parser reads, carrying a usage block *)
HasUsageBlock(ln) ==
  ~ln.blank /\ ln.type = "assistant" /\ ln.msg /\ DOMAIN ln.usage # {}

CarriesField(ln, key) == HasUsageBlock(ln) /\ key \in DOMAIN ln.usage

(* the sum of the fields of the last usage block of the file, 0 if none *)
RECURSIVE LastBlockSum(_)
LastBlockSum(c) ==
  IF c = <<>> THEN 0
  ELSE LET ln == c[Len(c)]
       IN IF HasUsageBlock(ln)
          THEN (IF "input_tokens" \in DOMAIN ln.usage THEN ln.usage["input_tokens"] ELSE 0)
             + (IF "cache_creation_input_tokens" \in DOMAIN ln.usage
                THEN ln.usage["cache_creation_input_tokens"] ELSE 0)
             + (IF "cache_read_input_tokens" \in DOMAIN ln.usage
                THEN ln.usage["cache_read_input_tokens"] ELSE 0)
          ELSE LastBlockSum(SubSeq(c, 1, Len(c) - 1))

(* the value of a field in the last usage block that carries it, 0 if none *)
RECURSIVE LatestField(_, _)
LatestField(c, key) ==
  IF c = <<>> THEN 0
  ELSE LET ln == c[Len(c)]
       IN IF CarriesField(ln, key) THEN ln.usage[key]
          ELSE LatestField(SubSeq(c, 1, Len(c) - 1), key)

(* the last usage block of the file carries all three fields *)
RECURSIVE LastBlockComplete(_)
LastBlockComplete(c) ==
  IF c = <<>> THEN FALSE
  ELSE LET ln == c[Len(c)]
       IN IF HasUsageBlock(ln) THEN DOMAIN ln.usage = UsageKeys
          ELSE LastBlockComplete(SubSeq(c, 1, Len(c) - 1))

(* C12 as stated: after a parse the usage total is the sum of the fields   *)
(* of the last assistant usage block alone, for every sequence of usage    *)
(* blocks.                                                                 *)
C12_TotalIsLastBlockOnly ==
  pc = "parsed" => tok = LastBlockSum(file.content)

(* C12 amended: after a parse the usage total is the sum, over the three   *)
(* fields, of the value in the last usage block that carries that field    *)
(* (0 when none does); it is the sum of the last usage block alone         *)
(* whenever that block carries all three fields: {100,0,0} followed by     *)
(* {50,10,0} gives 60.                                                     *)
C12_TotalIsLatestFields ==
  pc = "parsed" =>
    /\ tok = LatestField(file.content, "input_tokens")
           + LatestField(file.content, "cache_creation_input_tokens")
           + LatestField(file.content, "cache_read_input_tokens")
    /\ (LastBlockComplete(file.content) => tok = LastBlockSum(file.content))

C12_Witness ==
  /\ pc = "parsed" /\ Len(file.content) = 2
  /\ file.content[1].usage = Usage3(100, 0, 0)
  /\ file.content[2].usage = Usage3(50, 10, 0)
  /\ tok = 60

(* C13: a usage block overwrites the fields it carries and leaves each     *)
(* field it lacks at the value the earlier lines of the same parse gave it *)
(* (zero if none); an assistant line with no usage block, like any other   *)
(* line, changes no field.                                                 *)
C13_MissingFieldsKeepValue ==
  /\ [](pc = "parsed" /\ (\A i \in 1..Len(file.content) : ~HasUsageBlock(file.content[i]))
          => usg = NoTokens)
  /\ [][(pc = "parse" /\ pc' = "parsed") =>
          /\ usg'.li = IF CarriesField(LastLine, "input_tokens")
                       THEN LastLine.usage["input_tokens"] ELSE usg.li
          /\ usg'.lcc = IF CarriesField(LastLine, "cache_creation_input_tokens")
                        THEN LastLine.usage["cache_creation_input_tokens"] ELSE usg.lcc
          /\ usg'.lcr = IF CarriesField(LastLine, "cache_read_input_tokens")
                        THEN LastLine.usage["cache_read_input_tokens"] ELSE usg.lcr]_vars

C13_Witness ==
  /\ pc = "parsed" /\ Len(file.content) = 3
  /\ file.content[1].usage = Usage3(50, 10, 0)
  /\ file.content[2].usage = [cache_read_input_tokens |-> 3]
  /\ file.content[3].type = "assistant" /\ file.content[3].msg
  /\ file.content[3].usage = NoUsage
  /\ usg = [li |-> 50, lcc |-> 10, lcr |-> 3]

(* a line that is blank or lacks a top-level type or message key *)
Malformed(ln) == ln.blank \/ ln.type = "absent" \/ ~ln.msg

WithoutMalformed(c) == SelectSeq(c, LAMBDA ln : ~Malformed(ln))

(* C15: blank lines and lines without a top-level type or message key add  *)
(* no item, change no usage field and do not stop the parse: the items and *)
(* usage of a file equal those of the file with all such lines removed.    *)
C15_MalformedLinesSkipped ==
  pc = "parsed" =>
    /\ items = ParseItems(WithoutMalformed(file.content))
    /\ usg = ParseUsage(WithoutMalformed(file.content), NoTokens)
    /\ tok = ParseTok(WithoutMalformed(file.content))

C15_Witness ==
  /\ pc = "parsed" /\ Len(file.content) = 3
  /\ file.content[1].type = "absent" /\ file.content[1].msg /\ file.content[1].text > 0
  /\ file.content[2].blank
  /\ file.content[3].type = "assistant" /\ file.content[3].msg
  /\ Len(items) = 2 /\ tok = 60

(* no transcript is available: empty path, no such file, or a file that   *)
(* cannot be opened                                                        *)
NoTranscript == ~hasPath \/ ~file.exists \/ ~file.readable

(* C14: whenever no transcript is available, the Line buffer holds no item *)
(* line and the frame drawn shows the "(transcript not found)" line; the   *)
(* loop keeps running past the load.                                       *)
C14_PlaceholderWhenNoTranscript ==
  /\ []((pc = "draw" /\ NeedDraw /\ NoTranscript) =>
          /\ \A i \in 1..Len(L) : L[i].k \in {"notfound", "end", "blank"}
          /\ \E i \in ShownLines(off, Len(L), g_crows) : L[i].k = "notfound")
  /\ [][(pc = "load" /\ NoTranscript /\ pc' # pc) => pc' = "input"]_vars

(* C16: when the write of a frame fails, the write is not retried and the  *)
(* loop is left: the next statement of run_pager after the failed draw     *)
(* goes to the exit, not into another iteration.                           *)
C16_WriteFailureEndsLoop ==
  [][(pc = "top" /\ werr /\ pc' # pc) => pc' = "restore"]_vars

(* C17: a poll in which the transcript cannot be read (stat fails, or stat *)
(* succeeds and the open fails) leaves the Line buffer, the usage total    *)
(* and the viewport as they were, and the next poll that finds the file    *)
(* readable rebuilds from it.                                              *)
C17_UnreadablePollChangesNothing ==
  /\ [][(pc = "load" /\ pc' = "input" /\ rdfail') =>
          (L' = L /\ tok' = tok /\ off' = off /\ uscroll' = uscroll)]_vars
  /\ [][(pc = "load" /\ pc' = "input" /\ rdfail /\ file.exists /\ file.readable) =>
          (cc' = 1 /\ L' = Rebuild(file, g_cols) /\ tok' = ParseTok(file.content))]_vars

(* C18: for every string s and column count c >= 1 the wrapper appends s   *)
(* followed by exactly max(0, ceil(vlen(s) / c) - 1) empty lines: none     *)
(* when vlen(s) <= c, else the n with n * c < vlen(s) <= (n + 1) * c, so   *)
(* none for vlen(s) = c and one for vlen(s) = c + 1.                       *)
C18_ContinuationLineCount ==
  pc = "pushed" =>
    LET v == vlen(text)
        n == Len(L) - 1
    IN /\ L[1] = [k |-> "text", v |-> v]
       /\ \A i \in 2..Len(L) : L[i] = BlankLine
       /\ (v <= g_cols => n = 0)
       /\ (v > g_cols => n * g_cols < v /\ v <= (n + 1) * g_cols)
       /\ (v = g_cols + 1 => n = 1)

C18_Witness ==
  pc = "pushed" /\ g_cols = 2 /\ vlen(text) = 3 /\ Len(text) > 3 /\ Len(L) = 2

(* C19: in every reachable state every entry of the Line buffer has a     *)
(* visible length that fits the current terminal column count, for every   *)
(* kind of line and after a resize.                                        *)
C19_LinesFitColumns ==
  pc \in LoopPcs => \A i \in 1..Len(L) : L[i].v <= g_cols

(* C20: wrapping a text in a color sequence and reset, or in a hyperlink   *)
(* open/close pair, does not change its visible length, whatever bytes the *)
(* text holds.                                                             *)
C20_VlenInvariantUnderWrap ==
  [][(pc = "str" /\ pc' = "wrapped") => vlen(text') = vlen(text)]_vars

(* C21: what the terminal receives from the one write of a draw is the    *)
(* complete frame, from the cursor-hide prefix through the status line     *)
(* (or nothing at all, when the write fails): a truncated or partly        *)
(* written frame is never observable, for every Line buffer, offset and    *)
(* geometry.                                                               *)
C21_FrameDeliveredWhole ==
  (pc = "flushed" /\ tty # <<>>) =>
    /\ tty = frame
    /\ tty[1].p = "hide" /\ tty[Len(tty)].p = "status"

HasClear(fr) == \E i \in 1..Len(fr) : fr[i].p = "clear"

(* C22: the loop pass that observes a resize signal clears the flag and    *)
(* recomputes the geometry from the terminal, with contentRows = rows - 3, *)
(* and forces a full redraw: the force stays until a draw is made, that    *)
(* draw clears the whole screen, and nothing but an observed resize forces *)
(* it again, so every other draw after the first only homes the cursor.    *)
C22_ResizeForcesFullRedraw ==
  /\ [][(pc = "resize" /\ g_resize # 0 /\ pc' # pc) =>
          /\ g_resize' = 0 /\ first' = 1
          /\ g_rows' = ws.row /\ g_cols' = Min(ws.col, MaxCols)
          /\ g_crows' = g_rows' - 3]_vars
  /\ [](pc \in LoopPcs => g_crows = g_rows - 3)
  /\ [][(pc \in LoopPcs /\ first # 0 /\ first' = 0) =>
          (pc = "draw" /\ drawn' /\ HasClear(FramePrefix(first)))]_vars
  /\ [][(pc = "draw" /\ drawn' /\ first = 0) => ~HasClear(FramePrefix(first))]_vars
  /\ [][(first = 0 /\ first' # 0) => (pc = "resize" /\ g_resize # 0)]_vars

C22_Witness ==
  pc = "draw" /\ first = 1 /\ g_resize = 0 /\ g_rows = 2 /\ g_crows = -1 /\ g_quit = 0

(* the rows a frame emits between its two separators *)
RowPieces(fr) == SelectSeq(fr, LAMBDA x : x.p \in {"above", "line", "pad"})

(* C23: for every offset, Line buffer and geometry the frame holds between *)
(* its separators exactly contentRows rows: the lines-above indicator iff  *)
(* the offset is positive, then the entries at indices offset up to        *)
(* min(offset + contentRows - indicator, lineCount) in order, then blank   *)
(* padding; never more rows than contentRows (no row at all when           *)
(* contentRows is zero or negative).                                       *)
C23_FrameRowsFillContent ==
  pc = "flushed" =>
    LET rws == RowPieces(frame)
        ind == IF off > 0 THEN << Piece("above", off) >> ELSE <<>>
        hi == Min(off + g_crows - Len(ind), Len(L))
        lines == [j \in 1..(hi - off) |-> Piece("line", off + j - 1)]
        pads == [j \in 1..(g_crows - Len(ind) - Len(lines)) |-> Piece("pad", 0)]
    IN /\ Len(rws) = Max(g_crows, 0)
       /\ (g_crows > 0 => rws = ind \o lines \o pads)

IsPriorityKey(key) == \E k \in 1..Len(lbl_keys) : lbl_keys[k] = key

(* the fields of the object that carry a string under a priority key *)
PriorityHits(obj) ==
  { i \in 1..Len(obj) : obj[i].str /\ IsPriorityKey(obj[i].key) }

PriorityRank(key) == CHOOSE k \in 1..Len(lbl_keys) : lbl_keys[k] = key

StringFields(obj) == { i \in 1..Len(obj) : obj[i].str }

(* C24: the label of a tool_use element is the string value of the first   *)
(* key of the priority list that input carries with a string value; if     *)
(* there is none it is the value of the first string-valued field of       *)
(* input, whatever its position, and it is empty only if input has no      *)
(* string-valued field.                                                    *)
C24_LabelByPriorityThenFirstString ==
  pc = "labelled" =>
    IF PriorityHits(tu_input) # {}
    THEN \E i \in PriorityHits(tu_input) :
           /\ \A j \in PriorityHits(tu_input) :
                PriorityRank(tu_input[i].key) <= PriorityRank(tu_input[j].key)
           /\ lbl = tu_input[i].val
    ELSE IF StringFields(tu_input) # {}
         THEN \E i \in StringFields(tu_input) :
                (\A j \in StringFields(tu_input) : i <= j) /\ lbl = tu_input[i].val
         ELSE lbl = ""

(* a line that consists of three backticks and nothing else *)
BareFence(lb) == lb = << "BT", "BT", "BT" >>

(* a line that begins with three backticks, whatever follows *)
FenceStart(lb) == Len(lb) >= 3 /\ SubSeq(lb, 1, 3) = << "BT", "BT", "BT" >>

(* the flag before line i of a blob, when it starts false with the blob    *)
(* and is toggled by the lines T holds of                                  *)
InsideFence(T(_), blob, i) ==
  Cardinality({ j \in 1..(i - 1) : T(blob[j]) }) % 2 = 1

(* the kinds of the lines pushed for line i of item b *)
KindsOf(b, i) ==
  LET es == SelectSeq(mdl, LAMBDA e : e.blob = b /\ e.line = i)
  IN [j \in 1..Len(es) |-> es[j].k]

InOrder ==
  \A p, q \in 1..Len(mdl) :
    p < q => \/ mdl[p].blob < mdl[q].blob
             \/ mdl[p].blob = mdl[q].blob /\ mdl[p].line <= mdl[q].line

(* the lines pushed are those of a fence flag toggled by the T lines *)
FenceDiscipline(T(_)) ==
  /\ InOrder
  /\ \A b \in 1..Len(blobs) : \A i \in 1..Len(blobs[b]) :
       LET out == KindsOf(b, i)
           inside == InsideFence(T, blobs[b], i)
       IN IF T(blobs[b][i]) THEN out = <<>>
          ELSE IF inside THEN out = << "code" >>
          ELSE out # <<>> /\ \A j \in 1..Len(out) : out[j] # "code"

C27_OnePlaceholderLine ==
  (~hasPath /\ pc \in LoopPcs /\ (first = 0 \/ pc \in {"input", "draw"})) =>
     L = << NotFoundLine >>

(* the Line buffer does not show the present content of the transcript *)
Stale ==
  /\ pc \in LoopPcs
  /\ hasPath /\ file.exists /\ file.readable
  /\ L # Rebuild(file, g_cols)

(* C28: no transcript update is missed: whenever the Line buffer does not  *)
(* show the present content of a readable transcript (another process      *)
(* changed it, also within the same modification-time value, after the     *)
(* pager read it), a later iteration rebuilds the buffer from that         *)
(* content, unless the loop ends or the file goes away first.              *)
C28_NoUpdateMissed ==
  Stale ~> (~Stale)

(* C29: every kill(..., SIGTERM) and every waitpid the opener issues for
   the pager names a pid that fork returned for a child, on both paths;
   the value of a failed fork is never passed to either call. *)
C29_KillOnlyForkedPager ==
  /\ \A p \in opener.kills \cup opener.waits : p = PagerPid
  /\ ~opener.broadcast

(* C30: an opener that forked a pager child leaves neither for its caller
   nor for the terminal editor before it has sent that child SIGTERM and
   reaped it, and once it waits for the child after the SIGTERM the wait
   ends. *)
OpenerDone == pc \in { "ret", "exec" }

OpenerWaiting == pc \in { "td_reap", "ge_reap" } /\ opener.pager_pid > 0

C30_PagerTermedAndReaped ==
  /\ [](OpenerDone /\ opener.pager_pid > 0
          => PagerPid \in opener.kills /\ PagerPid \in opener.waits
             /\ kids.pager = "reaped")
  /\ [](OpenerWaiting => PagerPid \in opener.kills)
  /\ (OpenerWaiting ~> OpenerDone)

C30_Witness ==
  /\ pc = "exec" /\ opener.pager_pid > 0
  /\ PagerPid \in opener.kills /\ kids.pager = "reaped"

====
